---- MODULE Spec2Model ----
(***************************************************************************)
(* A model of reader_assistant: the rate-limited batch embedder            *)
(* (src/core/embeddings.py), the JSON array extraction utility             *)
(* (src/utils/string.py), and the agents, the visualizer and main          *)
(* (src/agents/*.py, main.py).                                             *)
(*                                                                         *)
(* Durations are in tenths of a second, so that 0.1 s and 0.5 s are        *)
(* integers.  Python indices are kept 0-based as in the source; TLA+       *)
(* sequences are 1-based, and the slicing operators convert.               *)
(***************************************************************************)
EXTENDS Integers, Sequences, FiniteSets, TLC

VARIABLES
    \* RateLimitedEmbeddings
    batch_size,     \* self.batch_size
    texts,          \* the argument of embed_documents
    embPc,          \* where embed_documents is
    i,              \* the loop variable of embed_documents (0-based start of the batch)
    result,         \* the local list result
    attempt,        \* tenacity's retry_state.attempt_number for the current batch
    lastErr,        \* the exception of the last provider call, "none" after a success
    events,         \* the provider calls and the sleeps, in the order they happened
    returned,       \* what the caller of embed_documents received
    embedError      \* the exception embed_documents raised, outermost first

embVars == <<batch_size, texts, embPc, i, result, attempt, lastErr, events,
             returned, embedError>>

VARIABLES
    \* extract_json_array
    json_str,       \* the argument: its Python type and, for text, its characters
    ejPc,           \* "idle", "ready" (called) or "done"
    ejOut           \* what the call returned or raised

ejVars == <<json_str, ejPc, ejOut>>

VARIABLES
    \* main, the agents and the visualizer
    mainPc,         \* "start", the data product main is building, "done" or "failed"
    stage,          \* within a product: "fetch", "lookup" (get_coordinates' loop) or "visualize"
    answer,         \* result['result'] of the last engine query
    steps,          \* what the agent of the current request called, in order
    stepsOf,        \* the agent steps belongs to
    requests,       \* per agent: data-product requests made
    queries,        \* per agent: engine queries issued
    pending,        \* get_coordinates: the distinct names not looked up yet
    locations,      \* get_coordinates: the local list result
    data,           \* the data product in hand: a list of items
    vizFor,         \* the product visualize was last called for
    vizRenderer,    \* the branch visualize took
    vizRaised,      \* whether that call raised
    builds,         \* calls of create_qa_system made
    engineOf,       \* per agent: the engine it holds (the build it came from)
    queried,        \* per agent: the engines it has queried
    lookups,        \* get_coordinates: the lookups made, each with its outcome
    built           \* the products fetched and visualised, in order

logVars == <<builds, engineOf, queried, lookups, built>>

agVars == <<mainPc, stage, answer, steps, stepsOf, requests, queries, pending,
            locations, data, vizFor, vizRenderer, vizRaised, logVars>>

VARIABLES
    \* create_qa_system
    chunk_size,     \* config.chunk_size
    chunk_overlap,  \* config.chunk_overlap
    doc_len,        \* the number of characters of the document
    checksSize,     \* whether the installed text splitter rejects chunk_size <= 0
    qaPc,           \* "start", "embedding", "built" (the engine was returned) or "raised"
    qaRaisedAt,     \* the step of create_qa_system that raised
    chunks,         \* len(texts): the chunks the splitter produced
    index,          \* the vectors the vector store holds, one per chunk
    \* one query of the engine create_qa_system returned
    ansPc,          \* "none", "map", "done" or "raised"
    retrieved,      \* the number of chunks the retriever returned
    llmCalls,       \* the completion calls made, in order
    final           \* result["result"]

qaVars == <<chunk_size, chunk_overlap, doc_len, checksSize, qaPc, qaRaisedAt,
            chunks, index, ansPc, retrieved, llmCalls, final>>

ansVars == <<ansPc, retrieved, llmCalls, final>>

vars == <<embVars, ejVars, agVars, qaVars>>

(***************************************************************************)
(* Bounds of the model.                                                    *)
(***************************************************************************)
MaxTexts == 3
NumTexts == 2
MaxBatchSize == 2
MaxLen == 4
MaxAnswerLen == 4
MaxChunkSize == 2
MaxDocLen == 6

(***************************************************************************)
(* Program constants.  The arguments of wait_exponential are in seconds;   *)
(* the two sleeps are in tenths of a second (0.1 s and 0.5 s).             *)
(***************************************************************************)
STOP_AFTER_ATTEMPT == 3
WAIT_MULTIPLIER == 1
WAIT_MIN == 2
WAIT_MAX == 10
EXP_BASE == 2
PACING_SLEEP == 1
EMBEDDINGS_DELAY_BETWEEN_BATCHES == 5
EMBEDDINGS_BATCH_SIZE == 5
SEARCH_K == 3

Min(a, b) == IF a < b THEN a ELSE b
Max(a, b) == IF a > b THEN a ELSE b

RECURSIVE Pow(_, _)
Pow(b, e) == IF e <= 0 THEN 1 ELSE b * Pow(b, e - 1)

\* Seconds as tenths of a second.
Seconds(s) == s * 10

SeqsUpTo(S, n) == UNION {[1..k -> S] : k \in 0..n}

\* Python's s[a:b] for 0 <= a.
PySlice(s, a, b) == SubSeq(s, a + 1, Min(b, Len(s)))

(***************************************************************************)
(* The embedding provider (YandexGPTEmbeddings.embed_documents): one       *)
(* vector per input string, in input order.                                *)
(***************************************************************************)
TextIds == 1..NumTexts
ProviderErrors == {"ConnectionError", "RateLimitError"}

Embedding(t) == <<t, 0 - t>>

ProviderEmbed(batch) == [k \in 1..Len(batch) |-> Embedding(batch[k])]

(***************************************************************************)
(* The retry policy of _embed_batch.                                       *)
(***************************************************************************)
\* A stop condition that is one attempt late.
StopAfterAttemptLate(attempt_number) == attempt_number > STOP_AFTER_ATTEMPT

StopAfterAttempt(attempt_number) == attempt_number >= STOP_AFTER_ATTEMPT

\* A backoff whose exponent is the number of the failed attempt itself.
WaitExponentialFromBase(attempt_number) ==
    Max(Max(0, WAIT_MIN),
        Min(WAIT_MULTIPLIER * Pow(EXP_BASE, attempt_number), WAIT_MAX))

\* tenacity's wait_exponential, in seconds; attempt_number is the attempt
\* that has just failed.
WaitExponential(attempt_number) ==
    Max(Max(0, WAIT_MIN),
        Min(WAIT_MULTIPLIER * Pow(EXP_BASE, attempt_number - 1), WAIT_MAX))

\* A retry loop that looks at the stop condition before the outcome.
RetryDecisionStopFirst(attempt_number, failed) ==
    IF StopAfterAttempt(attempt_number) THEN "raise"
    ELSE IF ~failed THEN "return"
    ELSE "sleep"

\* A retry loop that goes on to the last attempt whatever the outcome.
RetryDecisionToTheEnd(attempt_number, failed) ==
    IF ~StopAfterAttempt(attempt_number) THEN "sleep"
    ELSE IF failed THEN "raise"
    ELSE "return"

\* What tenacity does with the outcome of an attempt: the retry predicate
\* first, then stop, then wait.
RetryDecision(attempt_number, failed) ==
    IF ~failed THEN "return"
    ELSE IF StopAfterAttempt(attempt_number) THEN "raise"
    ELSE "sleep"

(***************************************************************************)
(* embed_documents                                                         *)
(***************************************************************************)
CallEvent(b, n, ok, items) ==
    [kind |-> "call", batch |-> b, attempt |-> n, ok |-> ok, why |-> "-", dur |-> 0,
     items |-> items]
SleepEvent(b, n, why, d) ==
    [kind |-> "sleep", batch |-> b, attempt |-> n, ok |-> TRUE, why |-> why, dur |-> d,
     items |-> <<>>]

\* Nothing returned (yet): a list no call can return, every vector having
\* two components.
NoValue == <<<<>>>>
NoError == <<>>

\* A loop bound that is off by one.
LoopContinuesInclusive(idx, n) == idx <= n

\* range(0, len(texts), batch_size): the loop variable is in range.
LoopContinues(idx, n) == idx < n

\* A slice that runs one item into the next batch.
BatchOverlapping(txts, idx, size) == PySlice(txts, idx, idx + size + 1)

\* texts[i:i + batch_size]
Batch(txts, idx, size) == PySlice(txts, idx, idx + size)

\* A batch result put in front of the earlier ones.
ExtendInFront(acc, batch_result) == batch_result \o acc

\* result.extend(batch_result)
Extend(acc, batch_result) == acc \o batch_result

\* An exception raised without its context (raise ... from None).
EmbedFailureBare(retry_error) == <<"Exception">>

\* raise Exception(...) inside the except clause: the new exception has the
\* caught one as its context.
EmbedFailure(retry_error) == <<"Exception">> \o retry_error

\* tenacity's RetryError, raised from the exception of the last attempt.
RetryError(e) == <<"RetryError", e>>

\* A delay after every batch, the last one too.
DelayAfterEvery(idx, size, n) == idx < n

\* if i + self.batch_size < len(texts)
DelayNeeded(idx, size, n) == idx + size < n

\* What the embedder does not touch.
restOfEmb == <<ejVars, agVars, qaVars>>

EmbInit ==
    /\ batch_size \in 1..MaxBatchSize
    /\ texts = <<>>
    /\ embPc = "idle"
    /\ i = 0
    /\ result = <<>>
    /\ attempt = 0
    /\ lastErr = "none"
    /\ events = <<>>
    /\ returned = NoValue
    /\ embedError = NoError

\* The call embed_documents(t).
EmbedDocuments ==
    /\ embPc = "idle"
    /\ \E t \in SeqsUpTo(TextIds, MaxTexts) : texts' = t
    /\ i' = 0
    /\ result' = <<>>
    /\ embPc' = "loop"
    /\ UNCHANGED <<batch_size, attempt, lastErr, events, returned, embedError>>
    /\ UNCHANGED restOfEmb

\* The loop takes its next batch and calls _embed_batch.
BatchBegin ==
    /\ embPc = "loop"
    /\ LoopContinues(i, Len(texts))
    /\ attempt' = 1
    /\ embPc' = "call"
    /\ UNCHANGED <<batch_size, texts, i, result, lastErr, events, returned, embedError>>
    /\ UNCHANGED restOfEmb

\* The loop is over: return result.
EmbedReturn ==
    /\ embPc = "loop"
    /\ ~LoopContinues(i, Len(texts))
    /\ returned' = result
    /\ embPc' = "returned"
    /\ UNCHANGED <<batch_size, texts, i, result, attempt, lastErr, events, embedError>>
    /\ UNCHANGED restOfEmb

\* One attempt of _embed_batch: time.sleep(0.1), the provider call, and
\* what tenacity and embed_documents do with its outcome.
AfterAttempt(failed, e) ==
    LET batch == Batch(texts, i, batch_size)
        decision == RetryDecision(attempt, failed)
    IN  /\ events' = events \o <<SleepEvent(i, attempt, "pace", PACING_SLEEP),
                                 CallEvent(i, attempt, ~failed, batch)>>
        /\ lastErr' = e
        /\ CASE decision = "return" ->
                  /\ result' = Extend(result, ProviderEmbed(batch))
                  /\ IF DelayNeeded(i, batch_size, Len(texts))
                        THEN embPc' = "delay" /\ i' = i
                        ELSE embPc' = "loop" /\ i' = i + batch_size
                  /\ UNCHANGED <<returned, embedError>>
             [] decision = "raise" ->
                  \* RetryError from the last exception, caught by the
                  \* except clause, which raises Exception in its context.
                  /\ embedError' = EmbedFailure(RetryError(e))
                  /\ embPc' = "raised"
                  /\ UNCHANGED <<i, result, returned>>
             [] OTHER ->
                  /\ embPc' = "backoff"
                  /\ UNCHANGED <<i, result, returned, embedError>>
        /\ UNCHANGED <<batch_size, texts, attempt>>
        /\ UNCHANGED restOfEmb

ProviderReturns ==
    /\ embPc = "call"
    /\ AfterAttempt(FALSE, "none")

ProviderRaises ==
    /\ embPc = "call"
    /\ \E e \in ProviderErrors : AfterAttempt(TRUE, e)

\* tenacity sleeps before the next attempt.
BackoffWait ==
    /\ embPc = "backoff"
    /\ events' = Append(events,
            SleepEvent(i, attempt + 1, "backoff", Seconds(WaitExponential(attempt))))
    /\ attempt' = attempt + 1
    /\ embPc' = "call"
    /\ UNCHANGED <<batch_size, texts, i, result, lastErr, returned, embedError>>
    /\ UNCHANGED restOfEmb

\* time.sleep(self.delay_between_batches), then the next iteration.
InterBatchDelay ==
    /\ embPc = "delay"
    /\ events' = Append(events,
            SleepEvent(i, 0, "delay", EMBEDDINGS_DELAY_BETWEEN_BATCHES))
    /\ i' = i + batch_size
    /\ embPc' = "loop"
    /\ UNCHANGED <<batch_size, texts, result, attempt, lastErr, returned, embedError>>
    /\ UNCHANGED restOfEmb

EmbNext ==
    \/ EmbedDocuments
    \/ BatchBegin
    \/ EmbedReturn
    \/ ProviderReturns
    \/ ProviderRaises
    \/ BackoffWait
    \/ InterBatchDelay

(***************************************************************************)
(* extract_json_array                                                      *)
(***************************************************************************)
Chars == {"[", "]", "x"}

Str(s) == [type |-> "str", val |-> s]
NonStrings == {[type |-> "NoneType", val |-> <<>>],
               [type |-> "list", val |-> <<"[", "]">>],
               [type |-> "bytes", val |-> <<"[", "x", "]">>]}
ExtractInputs == {Str(s) : s \in SeqsUpTo(Chars, MaxLen)} \cup NonStrings

Return(v) == [kind |-> "return", val |-> v, type |-> "-", msg |-> "-"]
Raise(t, m) == [kind |-> "raise", val |-> <<>>, type |-> t, msg |-> m]
NoOutcome == [kind |-> "none", val |-> <<>>, type |-> "-", msg |-> "-"]

\* str.find(c): the 0-based index of the first c, or -1.
Find(s, c) ==
    IF \E k \in 1..Len(s) : s[k] = c
        THEN (CHOOSE k \in 1..Len(s) : s[k] = c /\ \A j \in 1..(k - 1) : s[j] # c) - 1
        ELSE -1

\* str.rfind(c): the 0-based index of the last c, or -1.
RFind(s, c) ==
    IF \E k \in 1..Len(s) : s[k] = c
        THEN (CHOOSE k \in 1..Len(s) : s[k] = c /\ \A j \in (k + 1)..Len(s) : s[j] # c) - 1
        ELSE -1

\* A test that needs both brackets to be missing.
BracketMissingBoth(start_idx, end_idx) == start_idx = -1 /\ end_idx = -1

\* if start_idx == -1 or end_idx == -1
BracketMissing(start_idx, end_idx) == start_idx = -1 \/ end_idx = -1

\* if start_idx >= end_idx
RangeInvalid(start_idx, end_idx) == start_idx >= end_idx

\* A slice that stops before the closing bracket.
ArraySliceExclusive(s, start_idx, end_idx) == PySlice(s, start_idx, end_idx)

\* json_str[start_idx:end_idx + 1]
ArraySlice(s, start_idx, end_idx) == PySlice(s, start_idx, end_idx + 1)

ExtractJsonArrayOf(x) ==
    IF x.type # "str"
        THEN Raise("TypeError", "Input argument must be a string")
    ELSE IF Len(x.val) = 0
        THEN Raise("ValueError", "String cannot be empty")
    ELSE LET start_idx == Find(x.val, "[")
             end_idx == RFind(x.val, "]")
         IN  IF BracketMissing(start_idx, end_idx)
                 THEN Raise("ValueError", "Failed to find JSON array in string")
             ELSE IF RangeInvalid(start_idx, end_idx)
                 THEN Raise("ValueError", "Invalid start and end indices for JSON array")
             ELSE Return(ArraySlice(x.val, start_idx, end_idx))

\* What extract_json_array does not touch.
restOfEj == <<embVars, agVars, qaVars>>

EjIdle ==
    /\ json_str = Str(<<>>)
    /\ ejPc = "idle"
    /\ ejOut = NoOutcome

EmbIdle ==
    /\ batch_size = 1
    /\ texts = <<>>
    /\ embPc = "unused"
    /\ i = 0
    /\ result = <<>>
    /\ attempt = 0
    /\ lastErr = "none"
    /\ events = <<>>
    /\ returned = NoValue
    /\ embedError = NoError

\* A call extract_json_array(json_str) has been made with some argument.
EjInit ==
    /\ json_str \in ExtractInputs
    /\ ejPc = "ready"
    /\ ejOut = NoOutcome

\* The call returns a substring.
ExtractReturns ==
    /\ ejPc = "ready"
    /\ ExtractJsonArrayOf(json_str).kind = "return"
    /\ ejOut' = ExtractJsonArrayOf(json_str)
    /\ ejPc' = "done"
    /\ UNCHANGED <<json_str, restOfEj>>

\* The call raises.
ExtractRaises ==
    /\ ejPc = "ready"
    /\ ExtractJsonArrayOf(json_str).kind = "raise"
    /\ ejOut' = ExtractJsonArrayOf(json_str)
    /\ ejPc' = "done"
    /\ UNCHANGED <<json_str, restOfEj>>

EjNext == ExtractReturns \/ ExtractRaises

(***************************************************************************)
(* The engine's answers and json.loads.  An answer is a text over prose    *)
(* ("x"), the two brackets, and one character per JSON value: "g" an       *)
(* object with the keys name and links, "t" one with date and event, "m"   *)
(* one with title, code and type, "h" one with title, code, type, name     *)
(* and links, "n" a value that is no object.  Commas and blanks are left   *)
(* out of the JSON texts.                                                  *)
(***************************************************************************)
ValueChars == {"g", "t", "m", "h", "n"}
JsonAnswers == SeqsUpTo({"x", "[", "]"} \cup ValueChars, MaxAnswerLen)

KeysOf(c) ==
    CASE c = "g" -> {"name", "links"}
      [] c = "t" -> {"date", "event"}
      [] c = "m" -> {"title", "code", "type"}
      [] c = "h" -> {"title", "code", "type", "name", "links"}
      [] OTHER -> {}

Item(isDict, keys) == [dict |-> isDict, keys |-> keys]
ItemOf(c) == Item(c # "n", KeysOf(c))

\* The values of an array from position p on, up to its closing bracket; a
\* nested array is a value that is no object.
RECURSIVE ParseItems(_, _, _)
ParseItems(s, p, acc) ==
    IF p > Len(s) THEN [ok |-> FALSE, val |-> <<>>, next |-> p]
    ELSE IF s[p] = "]" THEN [ok |-> TRUE, val |-> acc, next |-> p + 1]
    ELSE IF s[p] = "["
        THEN LET inner == ParseItems(s, p + 1, <<>>)
             IN  IF inner.ok
                     THEN ParseItems(s, inner.next, Append(acc, ItemOf("n")))
                     ELSE inner
    ELSE IF s[p] \in ValueChars THEN ParseItems(s, p + 1, Append(acc, ItemOf(s[p])))
    ELSE [ok |-> FALSE, val |-> <<>>, next |-> p]

\* json.loads of a text that starts with '[': the list, or JSONDecodeError.
JsonLoads(s) ==
    IF Len(s) = 0 \/ s[1] # "[" THEN [ok |-> FALSE, val |-> <<>>]
    ELSE LET r == ParseItems(s, 2, <<>>)
         IN  IF r.ok /\ r.next = Len(s) + 1
                 THEN [ok |-> TRUE, val |-> r.val]
                 ELSE [ok |-> FALSE, val |-> <<>>]

(***************************************************************************)
(* The agents                                                              *)
(***************************************************************************)
Agents == {"relation", "timeline", "map", "mermaid"}
JsonAgents == {"relation", "timeline", "mermaid"}

Step(op, arg, ok) == [op |-> op, arg |-> arg, ok |-> ok]
Run(st, ok, d) == [steps |-> st, ok |-> ok, data |-> d]

\* An agent that parses the answer as it came.
AnswerToJsonUnextracted(a) == Return(a)

\* json_str = extract_json_array(result['result'])
AnswerToJson(a) == ExtractJsonArrayOf(Str(a))

\* MermaidAgent: every diagram is a dict with the keys title, code, type.
ValidDiagrams(d) ==
    \A k \in 1..Len(d) : d[k].dict /\ {"title", "code", "type"} \subseteq d[k].keys

\* get_relations_data, get_timeline_data and get_mermaid_diagrams from the
\* engine's answer on: extract, parse, and for mermaid validate.
JsonAgentRun(a, validate) ==
    LET q == <<Step("qa", <<>>, TRUE)>>
        ex == AnswerToJson(a)
    IN  IF ex.kind = "raise"
            THEN Run(q \o <<Step("extract_json_array", a, FALSE)>>, FALSE, <<>>)
        ELSE LET parsed == JsonLoads(ex.val)
                 q2 == q \o <<Step("extract_json_array", a, TRUE)>>
             IN  IF ~parsed.ok
                     THEN Run(q2 \o <<Step("json.loads", ex.val, FALSE)>>, FALSE, <<>>)
                 ELSE IF validate /\ ~ValidDiagrams(parsed.val)
                     THEN Run(q2 \o <<Step("json.loads", ex.val, TRUE)>>, FALSE, <<>>)
                 ELSE Run(q2 \o <<Step("json.loads", ex.val, TRUE)>>, TRUE, parsed.val)

\* What the agents do not touch.
restOfAg == <<embVars, ejVars, qaVars>>

NoViz == vizFor' = "none" /\ vizRenderer' = "none" /\ vizRaised' = FALSE

\* A request of agent ag ends: with its data, or with ValueError, which
\* build_* and main log and raise again.
AgentEnds(ag, a, prefix, run) ==
    /\ answer' = a
    /\ steps' = prefix \o run.steps
    /\ stepsOf' = ag
    /\ requests' = [requests EXCEPT ![ag] = @ + 1]
    /\ queries' = [queries EXCEPT ![ag] = @ + 1]
    /\ data' = run.data
    /\ IF run.ok
          THEN mainPc' = mainPc /\ stage' = "visualize"
          ELSE mainPc' = "failed" /\ stage' = stage
    /\ queried' = [queried EXCEPT ![ag] = @ \cup {engineOf[ag]}]
    /\ NoViz
    /\ UNCHANGED <<pending, locations, builds, engineOf, lookups, built, restOfAg>>

\* self.qa(...) raises.
QueryRaises(ag, prefix) ==
    AgentEnds(ag, <<>>, prefix, Run(<<Step("qa", <<>>, FALSE)>>, FALSE, <<>>))

AgIdle ==
    /\ mainPc = "unused"
    /\ stage = "fetch"
    /\ answer = <<>>
    /\ steps = <<>>
    /\ stepsOf = "none"
    /\ requests = [ag \in Agents |-> 0]
    /\ queries = [ag \in Agents |-> 0]
    /\ pending = {}
    /\ locations = <<>>
    /\ data = <<>>
    /\ vizFor = "none"
    /\ vizRenderer = "none"
    /\ vizRaised = FALSE
    /\ builds = 0
    /\ engineOf = [ag \in Agents |-> 0]
    /\ queried = [ag \in Agents |-> {}]
    /\ lookups = <<>>
    /\ built = <<>>

AgInit ==
    /\ mainPc = "start"
    /\ stage = "fetch"
    /\ answer = <<>>
    /\ steps = <<>>
    /\ stepsOf = "none"
    /\ requests = [ag \in Agents |-> 0]
    /\ queries = [ag \in Agents |-> 0]
    /\ pending = {}
    /\ locations = <<>>
    /\ data = <<>>
    /\ vizFor = "none"
    /\ vizRenderer = "none"
    /\ vizRaised = FALSE
    /\ builds = 0
    /\ engineOf = [ag \in Agents |-> 0]
    /\ queried = [ag \in Agents |-> {}]
    /\ lookups = <<>>
    /\ built = <<>>

\* Agents that each come with an engine of their own.
AgentEngineOwn(ag, qa) ==
    CASE ag = "relation" -> qa
      [] ag = "timeline" -> qa + 1
      [] ag = "map" -> qa + 2
      [] OTHER -> qa + 3

\* The engine an agent keeps: the one its constructor was given.
AgentEngine(ag, qa) == qa

\* create_agents: create_qa_system is called; it returns the engine, which
\* every agent is constructed with, or raises.
CreateAgents ==
    /\ mainPc = "start"
    /\ builds' = builds + 1
    /\ \/ /\ mainPc' = "relation"
          /\ engineOf' = [ag \in Agents |-> AgentEngine(ag, builds')]
       \/ /\ mainPc' = "failed"
          /\ engineOf' = engineOf
    /\ UNCHANGED <<stage, answer, steps, stepsOf, requests, queries, pending,
                   locations, data, vizFor, vizRenderer, vizRaised,
                   queried, lookups, built, restOfAg>>

\* RelationGraphAgent.get_relations_data
GetRelationsData ==
    /\ mainPc = "relation" /\ stage = "fetch"
    /\ \/ \E a \in JsonAnswers : AgentEnds("relation", a, <<>>, JsonAgentRun(a, FALSE))
       \/ QueryRaises("relation", <<>>)

\* TimelineAgent.get_timeline_data
GetTimelineData ==
    /\ mainPc = "timeline" /\ stage = "fetch"
    /\ \/ \E a \in JsonAnswers : AgentEnds("timeline", a, <<>>, JsonAgentRun(a, FALSE))
       \/ QueryRaises("timeline", <<>>)

\* MermaidAgent.get_mermaid_diagrams: the examples file is read first.
GetMermaidDiagrams ==
    /\ mainPc = "mermaid" /\ stage = "fetch"
    /\ LET loaded == <<Step("_load_examples", <<>>, TRUE)>>
       IN  \/ \E a \in JsonAnswers : AgentEnds("mermaid", a, loaded, JsonAgentRun(a, TRUE))
           \/ QueryRaises("mermaid", loaded)
           \/ \* _load_examples raises: no query is made
              /\ steps' = <<Step("_load_examples", <<>>, FALSE)>>
              /\ stepsOf' = "mermaid"
              /\ requests' = [requests EXCEPT !["mermaid"] = @ + 1]
              /\ answer' = <<>>
              /\ data' = <<>>
              /\ mainPc' = "failed"
              /\ NoViz
              /\ UNCHANGED <<stage, queries, pending, locations, logVars, restOfAg>>

(***************************************************************************)
(* GeographyAgent: the answer is a text of names; "a" and "b" are letters. *)
(***************************************************************************)
GeoAnswers == SeqsUpTo({"a", "b", ",", " "}, MaxAnswerLen)

\* text.split(', ')
RECURSIVE SplitCommaBlank(_)
SplitCommaBlank(s) ==
    LET hits == {k \in 1..(Len(s) - 1) : s[k] = "," /\ s[k + 1] = " "}
    IN  IF hits = {} THEN <<s>>
        ELSE LET k == CHOOSE h \in hits : \A o \in hits : h <= o
             IN  <<SubSeq(s, 1, k - 1)>> \o SplitCommaBlank(SubSeq(s, k + 2, Len(s)))

\* set(locations)
Distinct(names) == {names[k] : k \in 1..Len(names)}

\* The geocoder's coordinates of a name, and str(c) of each.
GeocoderCoordinates(loc) == <<Len(loc), Len(loc) + 1>>
PyStr(c) == <<"str", c>>
Location(loc) ==
    [name |-> loc,
     coordinates |-> [k \in 1..2 |-> PyStr(GeocoderCoordinates(loc)[k])]]

\* get_toponims_data up to the loop of get_coordinates: the query and the split.
GeoQuery ==
    /\ mainPc = "map" /\ stage = "fetch"
    /\ \/ \E a \in GeoAnswers :
            /\ answer' = a
            /\ steps' = <<Step("qa", <<>>, TRUE), Step("split", a, TRUE)>>
            /\ stepsOf' = "map"
            /\ requests' = [requests EXCEPT !["map"] = @ + 1]
            /\ queries' = [queries EXCEPT !["map"] = @ + 1]
            /\ pending' = Distinct(SplitCommaBlank(a))
            /\ locations' = <<>>
            /\ data' = <<>>
            /\ stage' = "lookup"
            /\ queried' = [queried EXCEPT !["map"] = @ \cup {engineOf["map"]}]
            /\ lookups' = <<>>
            /\ NoViz
            /\ UNCHANGED <<mainPc, builds, engineOf, built, restOfAg>>
       \/ QueryRaises("map", <<>>)

Lookup(loc, outcome) == [name |-> loc, outcome |-> outcome]

\* A loop that appends whatever a lookup returned.
HasCoordinatesOrNothing(outcome) == outcome # "raises"

\* if coords: the lookup returned, and what it returned is not empty.
HasCoordinates(outcome) == outcome = "coordinates"

\* One turn of the loop of get_coordinates: the lookup of one name gives
\* coordinates, gives nothing, or raises (logged, and the loop goes on).
GeoLookup ==
    /\ mainPc = "map" /\ stage = "lookup"
    /\ \E loc \in pending : \E outcome \in {"coordinates", "nothing", "raises"} :
          /\ pending' = pending \ {loc}
          /\ locations' = IF HasCoordinates(outcome)
                             THEN Append(locations, Location(loc))
                             ELSE locations
          /\ steps' = Append(steps, Step("coordinates", loc, outcome # "raises"))
          /\ lookups' = Append(lookups, Lookup(loc, outcome))
    /\ UNCHANGED <<mainPc, stage, answer, stepsOf, requests, queries, data,
                   vizFor, vizRenderer, vizRaised, builds, engineOf, queried,
                   built, restOfAg>>

\* The loop is over: get_coordinates and get_toponims_data return the list.
GeoReturn ==
    /\ mainPc = "map" /\ stage = "lookup"
    /\ pending = {}
    /\ data' = [k \in 1..Len(locations) |-> Item(TRUE, {"name", "coordinates"})]
    /\ stage' = "visualize"
    /\ UNCHANGED <<mainPc, answer, steps, stepsOf, requests, queries, pending,
                   locations, vizFor, vizRenderer, vizRaised, logVars, restOfAg>>

(***************************************************************************)
(* VisualizationAgent.visualize and main                                   *)
(***************************************************************************)
FirstHasKeys(d, keys) == Len(d) > 0 /\ d[1].dict /\ keys \subseteq d[1].keys

IsGraphData(d) == FirstHasKeys(d, {"name", "links"})
IsTimelineData(d) == FirstHasKeys(d, {"date", "event"})
IsMapData(d) == FirstHasKeys(d, {"name", "coordinates"})

\* The branch visualize takes.
Dispatch(d) ==
    IF IsGraphData(d) THEN "graph"
    ELSE IF IsTimelineData(d) THEN "timeline"
    ELSE IF IsMapData(d) THEN "map"
    ELSE "unsupported"

\* A main that builds the map before the timeline.
NextProductMapFirst(product) ==
    CASE product = "relation" -> "map"
      [] product = "map" -> "timeline"
      [] product = "timeline" -> "mermaid"
      [] OTHER -> "done"

\* The order of main.
NextProduct(product) ==
    CASE product = "relation" -> "timeline"
      [] product = "timeline" -> "map"
      [] product = "map" -> "mermaid"
      [] OTHER -> "done"

\* What build_* and generate_mermaid_diagrams hold while they run.
KeepRequest == UNCHANGED <<answer, steps, stepsOf, locations, data, lookups>>

\* They have returned: their locals are gone.
DropRequest ==
    /\ answer' = <<>>
    /\ steps' = <<>>
    /\ stepsOf' = "none"
    /\ locations' = <<>>
    /\ data' = <<>>
    /\ lookups' = <<>>

\* visualization_agent.visualize(data) in build_* and
\* generate_mermaid_diagrams; main goes on to the next product, or, after
\* the last, logs that all visualizations were built.
Visualize ==
    /\ mainPc \in Agents /\ stage = "visualize"
    /\ vizFor' = mainPc
    /\ vizRenderer' = Dispatch(data)
    /\ \/ \* the renderer returns
          /\ Dispatch(data) # "unsupported"
          /\ vizRaised' = FALSE
          /\ mainPc' = NextProduct(mainPc)
          /\ stage' = "fetch"
          /\ built' = Append(built, mainPc)
          /\ DropRequest
       \/ \* the renderer raises
          /\ Dispatch(data) # "unsupported"
          /\ vizRaised' = TRUE
          /\ mainPc' = "failed"
          /\ stage' = stage
          /\ built' = built
          /\ KeepRequest
       \/ \* ValueError("Unsupported data format for visualization")
          /\ Dispatch(data) = "unsupported"
          /\ vizRaised' = TRUE
          /\ mainPc' = "failed"
          /\ stage' = stage
          /\ built' = built
          /\ KeepRequest
    /\ UNCHANGED <<requests, queries, pending, builds, engineOf, queried, restOfAg>>

AgNext ==
    \/ CreateAgents
    \/ GetRelationsData
    \/ GetTimelineData
    \/ GeoQuery
    \/ GeoLookup
    \/ GeoReturn
    \/ GetMermaidDiagrams
    \/ Visualize

(***************************************************************************)
(* create_qa_system: load, split, embed the chunks into the vector store,  *)
(* create the engine.  The document is a text without separators, so the   *)
(* splitter cuts it by characters.                                         *)
(***************************************************************************)
CeilDiv(a, b) == (a + b - 1) \div b

\* A constructor that also rejects an overlap equal to the chunk size.
SplitterRejectsEqual(size, overlap, sizeChecked) ==
    \/ overlap >= size
    \/ sizeChecked /\ size <= 0

\* RecursiveCharacterTextSplitter(chunk_size, chunk_overlap) raises
\* ValueError: for an overlap larger than the chunk size, and, where the
\* library checks it, for a chunk size that is not positive.
SplitterRejects(size, overlap, sizeChecked) ==
    \/ overlap > size
    \/ sizeChecked /\ size <= 0

\* len(text_splitter.split_documents(documents)): chunks of up to size
\* characters, each starting size - overlap characters after the one
\* before, and at least one character after it.
NumChunks(len, size, overlap) ==
    LET width == Max(size, 1)
        stride == Max(width - overlap, 1)
    IN  IF len = 0 THEN 0
        ELSE IF len <= width THEN 1
        ELSE 1 + CeilDiv(len - width, stride)

\* A vector store that accepts an empty list of vectors.
IndexErrorNever(embeddings) == FALSE

\* FAISS.from_documents reads embeddings[0] for the dimension: IndexError
\* on an empty list.
IndexError(embeddings) == Len(embeddings) = 0

\* What create_qa_system does not touch.
restOfQa == <<ejVars, agVars>>

QaIdle ==
    /\ chunk_size = 1
    /\ chunk_overlap = 0
    /\ doc_len = 0
    /\ checksSize = FALSE
    /\ qaPc = "unused"
    /\ qaRaisedAt = "none"
    /\ chunks = 0
    /\ index = <<>>
    /\ ansPc = "none"
    /\ retrieved = 0
    /\ llmCalls = <<>>
    /\ final = "none"

\* create_qa_system(config) is called; RateLimitedEmbeddings() will take its
\* batch size from config.py.
QaInit ==
    /\ chunk_size \in 0..MaxChunkSize
    /\ chunk_overlap \in 0..(MaxChunkSize + 1)
    /\ doc_len \in 0..MaxDocLen
    /\ checksSize \in BOOLEAN
    /\ qaPc = "start"
    /\ qaRaisedAt = "none"
    /\ chunks = 0
    /\ index = <<>>
    /\ ansPc = "none"
    /\ retrieved = 0
    /\ llmCalls = <<>>
    /\ final = "none"

EmbDefault ==
    /\ batch_size = EMBEDDINGS_BATCH_SIZE
    /\ texts = <<>>
    /\ embPc = "idle"
    /\ i = 0
    /\ result = <<>>
    /\ attempt = 0
    /\ lastErr = "none"
    /\ events = <<>>
    /\ returned = NoValue
    /\ embedError = NoError

\* The except clause of create_qa_system: ValueError, no engine.
QaRaise(at) ==
    /\ qaPc' = "raised"
    /\ qaRaisedAt' = at

\* loader.load() raises.
QaLoadFails ==
    /\ qaPc = "start"
    /\ QaRaise("load")
    /\ UNCHANGED <<chunk_size, chunk_overlap, doc_len, checksSize, chunks, index,
                   ansVars, embVars, restOfQa>>

\* The text splitter refuses its parameters.
QaSplitterRaises ==
    /\ qaPc = "start"
    /\ SplitterRejects(chunk_size, chunk_overlap, checksSize)
    /\ QaRaise("split")
    /\ UNCHANGED <<chunk_size, chunk_overlap, doc_len, checksSize, chunks, index,
                   ansVars, embVars, restOfQa>>

\* Load and split, then FAISS.from_documents calls
\* embeddings.embed_documents with the texts of the chunks (chunk k is
\* text k).
QaSplitAndEmbed ==
    /\ qaPc = "start"
    /\ ~SplitterRejects(chunk_size, chunk_overlap, checksSize)
    /\ chunks' = NumChunks(doc_len, chunk_size, chunk_overlap)
    /\ texts' = [k \in 1..chunks' |-> k]
    /\ i' = 0
    /\ result' = <<>>
    /\ embPc' = "loop"
    /\ qaPc' = "embedding"
    /\ UNCHANGED <<chunk_size, chunk_overlap, doc_len, checksSize, qaRaisedAt, index,
                   batch_size, attempt, lastErr, events, returned, embedError,
                   ansVars, restOfQa>>

\* embed_documents raised.
QaEmbeddingFailed ==
    /\ qaPc = "embedding" /\ embPc = "raised"
    /\ QaRaise("embed")
    /\ UNCHANGED <<chunk_size, chunk_overlap, doc_len, checksSize, chunks, index,
                   ansVars, embVars, restOfQa>>

\* embed_documents returned: the vector store is built from the vectors,
\* then the LLM and the RetrievalQA engine are created and returned.
QaBuildIndex ==
    /\ qaPc = "embedding" /\ embPc = "returned"
    /\ IF IndexError(returned)
          THEN QaRaise("index") /\ index' = index
          ELSE qaPc' = "built" /\ index' = returned /\ qaRaisedAt' = qaRaisedAt
    /\ UNCHANGED <<chunk_size, chunk_overlap, doc_len, checksSize, chunks,
                   ansVars, embVars, restOfQa>>

\* The texts a completion call can return.
Completions == {"p", "q"}

MapCall(k, out) == [kind |-> "map", chunk |-> k, out |-> out]
ReduceCall(n, out) == [kind |-> "reduce", chunk |-> n, out |-> out]

\* A combine step that hands a lone partial answer back as it is.
ReduceWhenSeveral(n) == n > 1

\* MapReduceDocumentsChain.combine_docs hands the partial answers to the
\* reduce chain whatever their number.
ReduceIssued(n) == TRUE

buildVars == <<chunk_size, chunk_overlap, doc_len, checksSize, qaPc, qaRaisedAt,
               chunks, index>>

\* qa({"query": ...}): the retriever embeds the query and returns the
\* search_k nearest chunks, or all of them when the index has fewer.
QaRetrieve ==
    /\ qaPc = "built" /\ ansPc = "none"
    /\ \/ /\ retrieved' = Min(SEARCH_K, Len(index))
          /\ ansPc' = "map"
       \/ /\ ansPc' = "raised"
          /\ retrieved' = retrieved
    /\ UNCHANGED <<llmCalls, final, buildVars, embVars, restOfQa>>

\* The map step: one completion call per retrieved chunk.
QaMapCall ==
    /\ ansPc = "map" /\ Len(llmCalls) < retrieved
    /\ \/ \E out \in Completions :
             /\ llmCalls' = Append(llmCalls, MapCall(Len(llmCalls), out))
             /\ ansPc' = ansPc
       \/ /\ ansPc' = "raised"
          /\ llmCalls' = llmCalls
    /\ UNCHANGED <<retrieved, final, buildVars, embVars, restOfQa>>

\* The combine step over the partial answers.
QaReduce ==
    /\ ansPc = "map" /\ Len(llmCalls) = retrieved
    /\ IF ReduceIssued(retrieved)
          THEN \/ \E out \in Completions :
                    /\ llmCalls' = Append(llmCalls, ReduceCall(retrieved, out))
                    /\ final' = out
                    /\ ansPc' = "done"
               \/ /\ ansPc' = "raised"
                  /\ UNCHANGED <<llmCalls, final>>
          ELSE /\ final' = llmCalls[1].out
               /\ ansPc' = "done"
               /\ llmCalls' = llmCalls
    /\ UNCHANGED <<retrieved, buildVars, embVars, restOfQa>>

QaNext ==
    \/ QaLoadFails
    \/ QaSplitterRaises
    \/ QaSplitAndEmbed
    \/ BatchBegin
    \/ EmbedReturn
    \/ ProviderReturns
    \/ ProviderRaises
    \/ BackoffWait
    \/ InterBatchDelay
    \/ QaEmbeddingFailed
    \/ QaBuildIndex
    \/ QaRetrieve
    \/ QaMapCall
    \/ QaReduce

\* The embedder, with the rest of the program at rest.
InitEmbed == EmbInit /\ EjIdle /\ AgIdle /\ QaIdle
SpecEmbed == InitEmbed /\ [][EmbNext]_vars

\* The same, with a caller that calls, a provider that answers every call
\* (with its result or an exception), and sleeps that end.
FairSpecEmbed == InitEmbed /\ [][EmbNext]_vars /\ WF_vars(EmbNext)

\* extract_json_array on each of its inputs.
InitExtract == EjInit /\ EmbIdle /\ AgIdle /\ QaIdle
SpecExtract == InitExtract /\ [][EjNext]_vars

\* One run of main.
InitMain == AgInit /\ EmbIdle /\ EjIdle /\ QaIdle
SpecMain == InitMain /\ [][AgNext]_vars

\* One call of create_qa_system.
InitQa == QaInit /\ EmbDefault /\ EjIdle /\ AgIdle
SpecQa == InitQa /\ [][QaNext]_vars

(***************************************************************************)
(* What the event log says about a batch; a batch is named by the 0-based  *)
(* index of its first text.                                                *)
(***************************************************************************)
IsCall(ev) == ev.kind = "call"
IsSleep(ev, why) == ev.kind = "sleep" /\ ev.why = why

CallsOf(b) == SelectSeq(events, LAMBDA ev : IsCall(ev) /\ ev.batch = b)
BatchesCalled == {events[k].batch : k \in {j \in 1..Len(events) : IsCall(events[j])}}
AllFailed(c) == Len(c) > 0 /\ \A k \in 1..Len(c) : ~c[k].ok
CountSleeps(why) == Len(SelectSeq(events, LAMBDA ev : IsSleep(ev, why)))
EmbTerminated == embPc \in {"returned", "raised"}

\* C1: a successful embed_documents returns exactly one embedding per text,
\* and the embedding at position k is the provider's embedding of texts[k],
\* whatever the batch size and the retries.
C1_OrderAndLengthPreserved ==
    embPc = "returned" =>
        /\ Len(returned) = Len(texts)
        /\ \A k \in 1..Len(texts) : returned[k] = Embedding(texts[k])

C1_Witness ==
    /\ embPc = "returned"
    /\ Len(texts) >= 3
    /\ texts[1] # texts[2]
    /\ batch_size < Len(texts)
    /\ \E k \in 1..Len(events) : IsCall(events[k]) /\ ~events[k].ok

\* C2: a batch whose every attempt raises gets exactly 3 provider calls,
\* never a 4th, and the embed call then fails instead of returning.
C2_ThreeCallsThenFailure ==
    /\ \A b \in BatchesCalled :
          LET c == CallsOf(b)
          IN  /\ Len(c) <= 3
              /\ (AllFailed(c) /\ Len(c) = 3) =>
                    (embPc = "raised" /\ returned = NoValue /\ embedError # NoError)
              /\ (AllFailed(c) /\ EmbTerminated) => Len(c) = 3
    /\ embPc = "raised" =>
          \E b \in BatchesCalled : AllFailed(CallsOf(b)) /\ Len(CallsOf(b)) = 3

C2_Witness ==
    /\ embPc = "raised"
    /\ i > 0
    /\ Len(CallsOf(i)) = 3

\* C3: a batch whose first two attempts raise and whose third succeeds gets
\* exactly 3 provider calls, the third call's result is the batch's part of
\* the result, and the call goes on with the next batch.
FailedTwiceThenOk(c) == Len(c) >= 3 /\ ~c[1].ok /\ ~c[2].ok /\ c[3].ok

C3_SucceedsOnThirdAttempt ==
    \A b \in BatchesCalled :
        LET c == CallsOf(b)
            last == Min(b + batch_size, Len(texts))
        IN  FailedTwiceThenOk(c) =>
              /\ Len(c) = 3
              /\ Len(result) >= last
              /\ \A k \in (b + 1)..last : result[k] = Embedding(texts[k])
              /\ embPc = "raised" => i > b
              /\ (embPc = "returned" /\ last < Len(texts)) => CallsOf(last) # <<>>
              /\ embPc \in {"delay", "loop", "call", "backoff", "returned", "raised"}

C3_Witness ==
    /\ embPc = "returned"
    /\ FailedTwiceThenOk(CallsOf(0))
    /\ batch_size < Len(texts)

\* C4 as stated: no backoff wait before attempt 1, and the wait before
\* attempt n (n = 2, 3) is max(2, min(10, 1 * 2^(n-1))) seconds, so that
\* the wait before attempt 3 is longer than the wait before attempt 2.
BackoffBefore(b, n) ==
    {events[k].dur : k \in {j \in 1..Len(events) :
        IsSleep(events[j], "backoff") /\ events[j].batch = b /\ events[j].attempt = n}}

C4_StatedSchedule ==
    \A b \in BatchesCalled :
        /\ BackoffBefore(b, 1) = {}
        /\ \A n \in 2..3 : \A d \in BackoffBefore(b, n) :
              d = Seconds(Max(2, Min(10, 1 * Pow(2, n - 1))))
        /\ \A d2 \in BackoffBefore(b, 2) : \A d3 \in BackoffBefore(b, 3) : d2 < d3

\* C4 amended: no backoff wait before attempt 1 (only the 0.1 s pause that
\* precedes every provider call); every attempt n = 2, 3 is preceded by a
\* backoff wait of max(2, min(10, 1 * 2^(n-2))) seconds, which is 2 seconds
\* both times: the waits do not decrease, and do not increase either.
C4_BackoffSchedule ==
    /\ \A b \in BatchesCalled :
          /\ BackoffBefore(b, 1) = {}
          /\ \A n \in 2..3 : \A d \in BackoffBefore(b, n) :
                /\ d = Seconds(Max(2, Min(10, 1 * Pow(2, n - 2))))
                /\ d = Seconds(2)
    /\ \A k \in 1..Len(events) :
          IsCall(events[k]) =>
              /\ k >= 2 /\ IsSleep(events[k - 1], "pace") /\ events[k - 1].dur = 1
              /\ events[k].attempt >= 2 =>
                    /\ k >= 3
                    /\ IsSleep(events[k - 2], "backoff")
                    /\ events[k - 2].batch = events[k].batch
                    /\ events[k - 2].attempt = events[k].attempt
              /\ (events[k].attempt = 1 /\ k >= 3) => ~IsSleep(events[k - 2], "backoff")

C4_Witness ==
    \E b \in BatchesCalled :
        /\ BackoffBefore(b, 2) = {Seconds(2)}
        /\ BackoffBefore(b, 3) = {Seconds(2)}
        /\ Len(CallsOf(b)) = 3

\* C5: when a batch exhausts its attempts, embed_documents raises an error
\* that carries the provider's exception of the last attempt, the caller
\* receives no embeddings (not those of earlier batches either), and no
\* provider call is issued for a later batch.
Exhausted(b) == Len(CallsOf(b)) >= 3 /\ AllFailed(CallsOf(b))

C5_AllOrNothing ==
    \A b \in BatchesCalled :
        Exhausted(b) =>
            /\ embPc = "raised"
            /\ returned = NoValue
            /\ Len(embedError) > 1
            /\ embedError[Len(embedError)] = lastErr
            /\ lastErr \in ProviderErrors
            /\ IsCall(events[Len(events)]) /\ events[Len(events)].batch = b
            /\ \A k \in 1..Len(events) : events[k].batch <= b

C5_Witness ==
    /\ embPc = "raised"
    /\ i > 0
    /\ Len(result) > 0
    /\ Exhausted(i)

\* C6: embed_documents([]) returns the empty list with no provider call and
\* no sleep of any kind.
C6_EmptyInput ==
    (embPc # "idle" /\ texts = <<>>) =>
        /\ events = <<>>
        /\ embPc \in {"loop", "returned"}
        /\ embPc = "returned" => returned = <<>>

C6_Witness == embPc = "returned" /\ texts = <<>> /\ returned = <<>>

(***************************************************************************)
(* What a string holds, said without find and rfind.                       *)
(***************************************************************************)
Has(s, c) == \E k \in 1..Len(s) : s[k] = c
OpensBeforeCloses(s) ==
    \E a, b \in 1..Len(s) : a < b /\ s[a] = "[" /\ s[b] = "]"
IsText(x) == x.type = "str"

\* C7: for a string with a '[' before its last ']', extract_json_array
\* returns the substring from the first '[' to the last ']' inclusive.
C7_FirstOpenToLastClose ==
    (ejPc = "done" /\ IsText(json_str) /\ OpensBeforeCloses(json_str.val)) =>
        LET s == json_str.val
            r == ejOut.val
        IN  /\ ejOut.kind = "return"
            /\ Len(r) >= 2
            /\ r[1] = "[" /\ r[Len(r)] = "]"
            /\ \E a, b \in 1..Len(s) :
                  /\ a < b
                  /\ r = SubSeq(s, a, b)
                  /\ \A j \in 1..(a - 1) : s[j] # "["
                  /\ \A j \in (b + 1)..Len(s) : s[j] # "]"

C7_Witness ==
    /\ ejPc = "done"
    /\ json_str = Str(<<"x", "[", "]", "]">>)
    /\ ejOut = Return(<<"[", "]", "]">>)

\* C8: each class of invalid input fails with its own error, the classes
\* being tested in the order: not a string, empty, a bracket missing, the
\* first '[' at or after the last ']'; none of them returns a substring.
NotAString == Raise("TypeError", "Input argument must be a string")
EmptyInput == Raise("ValueError", "String cannot be empty")
NoBracketsFound == Raise("ValueError", "Failed to find JSON array in string")
MalformedRange == Raise("ValueError", "Invalid start and end indices for JSON array")

C8_ErrorPerInputClass ==
    ejPc = "done" =>
        LET s == json_str.val
        IN  /\ ~IsText(json_str) => ejOut = NotAString
            /\ (IsText(json_str) /\ s = <<>>) => ejOut = EmptyInput
            /\ (IsText(json_str) /\ s # <<>> /\ (~Has(s, "[") \/ ~Has(s, "]")))
                  => ejOut = NoBracketsFound
            /\ (IsText(json_str) /\ Has(s, "[") /\ Has(s, "]") /\ ~OpensBeforeCloses(s))
                  => ejOut = MalformedRange
            /\ (~IsText(json_str) \/ ~OpensBeforeCloses(s)) => ejOut.kind = "raise"
            /\ Cardinality({NotAString, EmptyInput, NoBracketsFound, MalformedRange}) = 4

C8_Witness ==
    /\ ejPc = "done"
    /\ json_str = Str(<<"]", "x", "[">>)
    /\ ejOut = MalformedRange

(***************************************************************************)
(* What steps says about the request of an agent.                          *)
(***************************************************************************)
StepsWith(op) == {k \in 1..Len(steps) : steps[k].op = op}
ParsingSteps == StepsWith("json.loads") \cup StepsWith("split")

\* The text from the first '[' to the last ']' of s, said without find and rfind.
IsArrayPartOf(r, s) ==
    \E a, b \in 1..Len(s) :
        /\ a < b
        /\ s[a] = "[" /\ s[b] = "]"
        /\ r = SubSeq(s, a, b)
        /\ \A j \in 1..(a - 1) : s[j] # "["
        /\ \A j \in (b + 1)..Len(s) : s[j] # "]"

\* C9 as stated: each of the four agents issues exactly one engine query
\* per request, and the answer goes through extract_json_array before it
\* is parsed into structured data.
C9_AllAgentsExtractBeforeParsing ==
    /\ \A ag \in Agents : queries[ag] = requests[ag]
    /\ \A k \in ParsingSteps : \E j \in StepsWith("extract_json_array") : j < k

\* C9 amended: RelationGraphAgent, TimelineAgent and MermaidAgent parse
\* (json.loads) only what extract_json_array returned for the engine's
\* answer; GeographyAgent never calls extract_json_array and splits the raw
\* answer on ', '.  Every agent issues at most one engine query per
\* request, and exactly one unless MermaidAgent fails to read its examples
\* file, which happens before its query.
C9_OneQueryAndExtractForJsonAgents ==
    /\ \A ag \in Agents : queries[ag] <= requests[ag]
    /\ \A ag \in Agents \ {"mermaid"} : queries[ag] = requests[ag]
    /\ queries["mermaid"] < requests["mermaid"] =>
          (stepsOf = "mermaid" /\ steps = <<Step("_load_examples", <<>>, FALSE)>>)
    /\ Cardinality(StepsWith("qa")) <= 1
    /\ stepsOf \in JsonAgents =>
          /\ StepsWith("split") = {}
          /\ \A k \in StepsWith("json.loads") :
                /\ k - 1 \in StepsWith("extract_json_array")
                /\ k - 2 \in StepsWith("qa")
                /\ steps[k - 1].arg = answer
                /\ steps[k - 1].ok
                /\ IsArrayPartOf(steps[k].arg, answer)
    /\ stepsOf = "map" =>
          /\ StepsWith("extract_json_array") = {}
          /\ StepsWith("json.loads") = {}
          /\ \A k \in StepsWith("split") :
                k - 1 \in StepsWith("qa") /\ steps[k].arg = answer

C9_Witness ==
    /\ stepsOf = "mermaid"
    /\ queries = [ag \in Agents |-> 1]
    /\ Len(answer) > 0 /\ answer[1] = "x"
    /\ \E k \in StepsWith("json.loads") : steps[k].ok
    /\ stage = "visualize"

\* C10: visualize handles a non-empty list of mermaid diagrams validated
\* by get_mermaid_diagrams: it takes the branch of a renderer.
C10_MermaidDataDispatched ==
    (vizFor = "mermaid" /\ data # <<>> /\ ValidDiagrams(data)) =>
        vizRenderer \in {"graph", "timeline", "map"}

(***************************************************************************)
(* create_qa_system                                                        *)
(***************************************************************************)
QaEnded == qaPc \in {"built", "raised"}

\* C11: create_qa_system returns an engine only over an index holding the
\* embedding of every chunk of a document with at least one chunk; when a
\* batch exhausts its retries, or the document yields no chunk, it raises
\* and no index is kept.
C11_IndexBuildFailFast ==
    /\ qaPc = "built" =>
          /\ chunks >= 1
          /\ Len(index) = chunks
          /\ \A k \in 1..chunks : index[k] = Embedding(k)
          /\ \A b \in BatchesCalled : ~Exhausted(b)
    /\ (QaEnded /\ \E b \in BatchesCalled : Exhausted(b)) =>
          qaPc = "raised" /\ qaRaisedAt = "embed"
    /\ (QaEnded /\ embPc = "returned" /\ chunks = 0) =>
          qaPc = "raised" /\ qaRaisedAt = "index"
    /\ qaPc = "raised" => index = <<>>

\* The document is empty: embed_documents returned the empty list and the
\* index build raised.
C11_Witness ==
    /\ qaPc = "raised" /\ qaRaisedAt = "index"
    /\ doc_len = 0 /\ chunks = 0 /\ returned = <<>>

\* C13 as stated: with chunk_overlap >= chunk_size, or chunk_size <= 0,
\* create_qa_system raises before embed_documents is called.
C13_EqualOverlapRejected ==
    (chunk_overlap >= chunk_size \/ chunk_size <= 0) =>
        /\ qaPc \in {"start", "raised"}
        /\ embPc = "idle"
        /\ events = <<>>

\* C13: an overlap larger than the chunk size (and a chunk size that is
\* not positive, where the splitter checks it) raises before
\* embed_documents is called, for any document; an overlap equal to a
\* positive chunk size is not refused by the splitter.
C13_LargerOverlapRejected ==
    /\ (chunk_overlap > chunk_size \/ (checksSize /\ chunk_size <= 0)) =>
          /\ qaPc \in {"start", "raised"}
          /\ qaPc = "raised" => qaRaisedAt \in {"load", "split"}
          /\ embPc = "idle"
          /\ events = <<>>
    /\ (chunk_overlap = chunk_size /\ chunk_size > 0 /\ qaPc = "raised") =>
          qaRaisedAt # "split"
    /\ (chunk_overlap = chunk_size /\ chunk_size > 0 /\ qaPc = "built") =>
          chunks = NumChunks(doc_len, chunk_size, chunk_overlap)

\* The splitter refused an overlap larger than the chunk size.
C13_Witness ==
    /\ chunk_overlap > chunk_size /\ chunk_size > 0 /\ doc_len > 0
    /\ qaPc = "raised" /\ qaRaisedAt = "split"

\* C14 as stated: a query that retrieved one chunk makes the per-chunk
\* completion call only and returns its output.
C14_NoReduceForOneChunk ==
    (ansPc = "done" /\ retrieved = 1) =>
        /\ Len(llmCalls) = 1
        /\ llmCalls[1].kind = "map"
        /\ final = llmCalls[1].out

\* C14: a query that retrieved one chunk and returned made two completion
\* calls, the per-chunk call and then the reduce call over its output, and
\* the final answer is the output of the reduce call.
C14_ReduceAfterOneChunk ==
    (ansPc = "done" /\ retrieved = 1) =>
        /\ Len(llmCalls) = 2
        /\ llmCalls[1].kind = "map"
        /\ llmCalls[2].kind = "reduce"
        /\ final = llmCalls[2].out

\* One chunk in the index, and the reduce call answered otherwise than the
\* per-chunk call.
C14_Witness ==
    /\ ansPc = "done" /\ retrieved = 1 /\ Len(index) = 1
    /\ Len(llmCalls) = 2 /\ final # llmCalls[1].out

(***************************************************************************)
(* main: the engine, the products, get_coordinates                         *)
(***************************************************************************)
\* C12: in a run of main create_qa_system is called once, before any agent
\* query; every agent holds the engine of that one build, and every query
\* of every agent goes to it.
C12_EngineBuiltOnce ==
    /\ builds <= 1
    /\ mainPc # "start" => builds = 1
    /\ \A ag \in Agents :
          /\ queries[ag] > 0 => builds = 1 /\ queried[ag] = {1}
          /\ queried[ag] \subseteq {1}
          /\ mainPc \in Agents \cup {"done"} => engineOf[ag] = 1

\* All four agents have queried the engine of the one build.
C12_Witness ==
    /\ builds = 1
    /\ \A ag \in Agents : queries[ag] = 1 /\ queried[ag] = {1}

GeoReturned == mainPc = "map" /\ stage = "visualize"
SplitNames == Distinct(SplitCommaBlank(answer))
LookupsOf(name) == SelectSeq(lookups, LAMBDA l : l.name = name)
Found == SelectSeq(lookups, LAMBDA l : l.outcome = "coordinates")

\* C17: when get_coordinates returns, every distinct name of the split
\* answer was looked up exactly once, whatever the earlier lookups gave,
\* and the list returned holds one Location per name whose lookup gave
\* coordinates, in the order of the lookups, and nothing else; a lookup
\* that raises or gives nothing does not fail the request.
C17_OneLookupPerDistinctName ==
    /\ GeoReturned =>
          /\ \A name \in SplitNames : Len(LookupsOf(name)) = 1
          /\ \A k \in 1..Len(lookups) : lookups[k].name \in SplitNames
          /\ Len(locations) = Len(Found)
          /\ \A k \in 1..Len(Found) : locations[k] = Location(Found[k].name)
          /\ Len(data) = Len(Found)
    /\ (mainPc = "failed" /\ stepsOf = "map" /\ stage # "visualize") => lookups = <<>>

\* Two names: the lookup of the first raised, the second was still looked
\* up and is the one Location returned.
C17_Witness ==
    /\ GeoReturned
    /\ Len(lookups) = 2
    /\ lookups[1].outcome = "raises"
    /\ lookups[2].outcome = "coordinates"
    /\ Len(locations) = 1 /\ locations[1].name = lookups[2].name

Order == <<"relation", "timeline", "map", "mermaid">>

\* C19: the products are built in the order relation, timeline, map,
\* mermaid; a product is requested only when all products before it were
\* fetched and visualised, and at most once; after a failure main does
\* nothing more; main reaches its last log line only with all four built.
C19_FixedOrder ==
    /\ Len(built) <= Len(Order)
    /\ \A k \in 1..Len(built) : built[k] = Order[k]
    /\ \A k \in 1..Len(Order) :
          /\ requests[Order[k]] <= 1
          /\ requests[Order[k]] = 1 => Len(built) >= k - 1
          /\ mainPc = Order[k] => Len(built) = k - 1
    /\ mainPc = "failed" => ~ENABLED AgNext
    /\ mainPc = "failed" => Len(built) < Len(Order)
    /\ mainPc = "done" => built = Order

\* main logged that all visualizations were built.
C19_Witness == mainPc = "done" /\ built = Order /\ \A ag \in Agents : requests[ag] = 1

(***************************************************************************)
(* embed_documents: batches, pacing, termination                           *)
(***************************************************************************)
NumBatches == CeilDiv(Len(texts), batch_size)
Calls == SelectSeq(events, IsCall)
OkCalls == SelectSeq(events, LAMBDA ev : IsCall(ev) /\ ev.ok)

\* C15: every provider call submits the batch texts[j*B : min((j+1)*B, N)]
\* of some j below ceil(N/B); a batch that is not the last has B items, the
\* last has 1 to B; batches are submitted in increasing j; and when
\* embed_documents returns, batch j was the j-th to be embedded and every
\* text is in exactly one of the ceil(N/B) batches.
C15_ConsecutiveBatches ==
    LET B == batch_size
        N == Len(texts)
    IN  /\ \A k \in 1..Len(Calls) :
              LET ev == Calls[k]
                  j == ev.batch \div B
              IN  /\ ev.batch = j * B
                  /\ j \in 0..(NumBatches - 1)
                  /\ ev.items = SubSeq(texts, j * B + 1, Min((j + 1) * B, N))
                  /\ j < NumBatches - 1 => Len(ev.items) = B
                  /\ j = NumBatches - 1 => Len(ev.items) \in 1..B
                  /\ k > 1 => Calls[k - 1].batch <= ev.batch
        /\ \A k \in 1..Len(OkCalls) : OkCalls[k].batch = (k - 1) * B
        /\ embPc = "returned" =>
              /\ Len(OkCalls) = NumBatches
              /\ \A p \in 1..N :
                    LET holders == {k \in 1..Len(OkCalls) :
                                       /\ OkCalls[k].batch < p
                                       /\ p <= OkCalls[k].batch + Len(OkCalls[k].items)}
                    IN  /\ Cardinality(holders) = 1
                        /\ \A k \in holders :
                              OkCalls[k].items[p - OkCalls[k].batch] = texts[p]

\* Three texts in batches of two: a full batch and a last batch of one.
C15_Witness ==
    /\ embPc = "returned"
    /\ batch_size = 2 /\ Len(texts) = 3
    /\ Len(OkCalls) = 2
    /\ Len(OkCalls[1].items) = 2 /\ Len(OkCalls[2].items) = 1

\* C16: provider calls follow one another: the first call of embed_documents
\* is the first attempt of batch 0; the first attempt of any later batch
\* comes right after the successful call of the batch before it and an
\* inter-batch delay of delay_between_batches; a further attempt comes right
\* after the failed attempt before it and its backoff.  A delay is taken
\* only after a successful batch that is not the last, so a call that
\* returns took ceil(N/B) - 1 of them (none for no texts) and ended with a
\* provider call.
C16_SequentialAndThrottled ==
    LET B == batch_size
        N == Len(texts)
    IN  /\ \A k \in 1..Len(events) : IsCall(events[k]) =>
              LET ev == events[k]
              IN  /\ k >= 2 /\ IsSleep(events[k - 1], "pace")
                  /\ (ev.attempt = 1 /\ ev.batch = 0) => k = 2
                  /\ (ev.attempt = 1 /\ ev.batch > 0) =>
                        /\ k >= 4
                        /\ IsSleep(events[k - 2], "delay")
                        /\ events[k - 2].dur = EMBEDDINGS_DELAY_BETWEEN_BATCHES
                        /\ IsCall(events[k - 3]) /\ events[k - 3].ok
                        /\ events[k - 3].batch = ev.batch - B
                  /\ ev.attempt > 1 =>
                        /\ k >= 4
                        /\ IsSleep(events[k - 2], "backoff")
                        /\ IsCall(events[k - 3]) /\ ~events[k - 3].ok
                        /\ events[k - 3].batch = ev.batch
                        /\ events[k - 3].attempt = ev.attempt - 1
        /\ \A k \in 1..Len(events) : IsSleep(events[k], "delay") =>
              /\ k >= 2
              /\ IsCall(events[k - 1]) /\ events[k - 1].ok
              /\ events[k - 1].batch = events[k].batch
              /\ events[k].batch + B < N
        /\ embPc = "returned" =>
              /\ CountSleeps("delay") = IF N = 0 THEN 0 ELSE NumBatches - 1
              /\ N > 0 => IsCall(events[Len(events)])

\* Two batches, the first retried once: one delay, taken between them.
C16_Witness ==
    /\ embPc = "returned"
    /\ NumBatches = 2
    /\ CountSleeps("delay") = 1
    /\ CountSleeps("backoff") = 1
    /\ Len(Calls) = 3

C18_Bounds ==
    /\ Len(Calls) <= 3 * NumBatches
    /\ \A b \in BatchesCalled :
          /\ Len(CallsOf(b)) <= 3
          /\ Len(SelectSeq(events, LAMBDA ev : IsSleep(ev, "backoff") /\ ev.batch = b)) <= 2
          /\ \A k \in 1..(Len(CallsOf(b)) - 1) : ~CallsOf(b)[k].ok
    /\ CountSleeps("delay") <= Max(NumBatches - 1, 0)

\* C18: with a provider that answers every call, a call of embed_documents
\* ends, returning or raising; at every moment it has made at most
\* 3 * ceil(N/B) provider calls, at most 3 calls and 2 backoff waits per
\* batch, none for a batch after its successful call, and at most
\* ceil(N/B) - 1 inter-batch delays (none for no texts).
C18_TerminatesWithinBounds ==
    /\ []C18_Bounds
    /\ (embPc # "idle") ~> EmbTerminated

\* Every batch took its three attempts and the call returned.
C18_Witness ==
    /\ embPc = "returned"
    /\ NumBatches = 2
    /\ Len(Calls) = 3 * NumBatches
    /\ CountSleeps("backoff") = 2 * NumBatches

====
